---------------------------- MODULE Spec2Model ----------------------------
(***************************************************************************)
(* Model of LoanCalculatorEngine (src/src/index.js, second class of that   *)
(* name, lines 144-435): the base Context, the period loop __calculate,    *)
(* the repayment policy of __calculateContext, the settlement of           *)
(* __calculateAmortization and the totals of __calculateTotals.            *)
(*                                                                         *)
(* Numbers.  The program computes in floating point.  Here amounts are     *)
(* whole units of money and a rate is a whole number of RateDen-ths per    *)
(* period (rate 2 with RateDen = 4 is 50%).  A product amount * rate is    *)
(* rounded down to a whole unit and the annuity payment is rounded up, so  *)
(* a payment computed by pmt always covers the period's interest, as the   *)
(* exact formula does.                                                     *)
(*                                                                         *)
(* Two engines are constructed with identical loan parameters.  Engine 1   *)
(* registers every adjustment; engine 2 registers the same adjustments     *)
(* without the fee adjustments.  calculate() is called on engine 1 and,    *)
(* when engine 1 has a fee adjustment, afterwards on engine 2.             *)
(***************************************************************************)
EXTENDS Integers, Sequences, FiniteSets

\* ------------------------------------------------------------------ bounds
\* Denominator of every rate of the model.
RateDen == 4

\* Largest term (in term-frequency units) a loan is given or derives.
MaxTerm == 2

\* Largest number of adjustments registered on one engine.
MaxOperators == 1

\* Last period an adjustment may start or end at.
MaxOperatorPeriod == 2

\* --------------------------------------------------------------- constants
\* config.frequency.year: occurrences per year.
FrequencyYear == 1

\* The repayment frequencies the loans of the model use: yearly, half-yearly.
RepaymentFrequencies == {1, 2}

PresentValues == {0, 8, 20}

\* Nominal yearly rates, in RateDen-ths.
InterestRates == {0, 2}

\* User-supplied fixed repayment; 0 is "not supplied" (the default).
Repayments == {0, 1, 10}

\* LoanCalculatorEngine.repaymentType
interestOnly == "IO"
principalAndInterest == "PI"

Engines == {1, 2}

\* this.totals = null
Null == [null |-> TRUE]

\* ----------------------------------------------------------------- helpers
Max(a, b) == IF a >= b THEN a ELSE b

CeilDiv(a, b) == (a + b - 1) \div b

RECURSIVE Pow(_, _)
Pow(b, n) == IF n <= 0 THEN 1 ELSE b * Pow(b, n - 1)

\* amount * rate, the rate in RateDen-ths, rounded down to a whole unit.
MulRate(amount, rate) == (amount * rate) \div RateDen

\* `context.field || 0`: a field no adjustment has set is undefined.
OrZero(ctx, field) == IF field \in DOMAIN ctx THEN ctx[field] ELSE 0

\* `context.field = value`, the field added when it is not there yet.
SetField(ctx, field, value) ==
  [k \in (DOMAIN ctx) \cup {field} |-> IF k = field THEN value ELSE ctx[k]]

\* ------------------------------------------------ external math primitives
\* CalculatorEngineMath.effInterestRate: the nominal rate re-expressed per
\* repayment period.
EffInterestRate(interestRate, interestRateFrequency, repaymentFrequency) ==
  (interestRate * interestRateFrequency) \div repaymentFrequency

\* CalculatorEngineMath.effTerm: the term re-expressed in repayment periods.
EffTerm(term, termFrequency, repaymentFrequency) ==
  (term * repaymentFrequency) \div termFrequency

\* CalculatorEngineMath.pmt: the level payment that amortizes presentValue
\* over `periods` periods at `rate` per period, rounded up.
Pmt(presentValue, rate, periods) ==
  IF rate = 0
    THEN CeilDiv(presentValue, periods)
    ELSE LET grow == Pow(RateDen + rate, periods)
             flat == Pow(RateDen, periods)
         IN  CeilDiv(presentValue * rate * grow, RateDen * (grow - flat))

\* Whether the number of periods nper(presentValue, rate, payment) is taken
\* as known: the rate is positive, a payment is given and it is more than
\* the interest of one period on presentValue.
NperDefined(presentValue, rate, payment) ==
  rate > 0 /\ payment > 0 /\ payment * RateDen > rate * presentValue

\* Math.round(CalculatorEngineMath.nper(presentValue, rate, payment)), where
\* nper is the number x of periods with (1 + rate)^x = Q for
\* Q = payment / (payment - rate * presentValue).  Math.round(x) is the
\* least whole m with x < m + 1/2, that is with (1 + rate)^(2m + 1) > Q^2.
\* The search stops at `most` + 1.
RECURSIVE RoundedNperFrom(_, _, _, _, _)
RoundedNperFrom(m, presentValue, rate, payment, most) ==
  LET u == payment * RateDen
      v == payment * RateDen - rate * presentValue
  IN  IF m > most
         \/ Pow(RateDen + rate, 2 * m + 1) * v * v
              > Pow(RateDen, 2 * m + 1) * u * u
        THEN m
        ELSE RoundedNperFrom(m + 1, presentValue, rate, payment, most)

RoundedNper(presentValue, rate, payment, most) ==
  RoundedNperFrom(0, presentValue, rate, payment, most)

\* ------------------------------------------------------------- the context
\* The options a user may pass to the engine.  term = 0 is "not supplied".
Options ==
  [presentValue : PresentValues,
   interestRate : InterestRates,
   term : 0..MaxTerm,
   repayment : Repayments,
   repaymentType : {interestOnly, principalAndInterest},
   repaymentFrequency : RepaymentFrequencies]

\* Context.__normalizeValues.
NormalizeValues(ctx) ==
  LET effInterestRate == EffInterestRate(ctx.interestRate,
                           ctx.interestRateFrequency, ctx.repaymentFrequency)
      term == IF ctx.term = 0
                THEN RoundedNper(ctx.presentValue, effInterestRate,
                                 ctx.repayment, MaxTerm)
                ELSE ctx.term
  IN  [ctx EXCEPT !.effInterestRate = effInterestRate,
                  !.term = term,
                  !.effTerm = EffTerm(term, ctx.termFrequency,
                                      ctx.repaymentFrequency)]

\* new Context(options, config): the defaults, the options merged over them,
\* then the normalization.
Context(options) ==
  NormalizeValues(
    [presentValue |-> options.presentValue,
     interestRate |-> options.interestRate,
     interestRateFrequency |-> FrequencyYear,
     effInterestRate |-> 0,
     term |-> options.term,
     termFrequency |-> FrequencyYear,
     effTerm |-> 0,
     repayment |-> options.repayment,
     repaymentType |-> options.repaymentType,
     repaymentFrequency |-> options.repaymentFrequency])

\* --------------------------------------------------------- the adjustments
OperatorKinds == {"fee", "offset", "lumpSum", "interestRate", "extraRepayment"}

\* The amount an adjustment of each kind carries in the model; the amount of
\* an interest-rate adjustment is the new nominal rate, in RateDen-ths.
AmountOf(kind) ==
  CASE kind = "fee" -> 1
    [] kind = "offset" -> 4
    [] kind = "lumpSum" -> 5
    [] kind = "interestRate" -> 6
    [] kind = "extraRepayment" -> 2

\* An adjustment: a kind, an inclusive period range and an amount.
Operators ==
  {[kind |-> k, startPeriod |-> r[1], endPeriod |-> r[2], amount |-> AmountOf(k)] :
     k \in OperatorKinds,
     r \in {q \in (1..MaxOperatorPeriod) \X (1..MaxOperatorPeriod) : q[1] <= q[2]}}

\* operator.process(period, context): merge the adjustment's data into the
\* context.  The interest-rate adjustment re-normalizes the rate.
Process(operator, period, ctx) ==
  CASE operator.kind = "fee" -> SetField(ctx, "fee", operator.amount)
    [] operator.kind = "offset" -> SetField(ctx, "offset", operator.amount)
    [] operator.kind = "lumpSum" -> SetField(ctx, "lumpSum", operator.amount)
    [] operator.kind = "extraRepayment" ->
         SetField(ctx, "effExtraRepayment", operator.amount)
    [] operator.kind = "interestRate" ->
         [ctx EXCEPT !.interestRate = operator.amount,
                     !.effInterestRate = EffInterestRate(operator.amount,
                        ctx.interestRateFrequency, ctx.repaymentFrequency)]

IsActiveAt(operator, period) ==
  operator.startPeriod <= period /\ period <= operator.endPeriod

\* getOperatorsAt(period): the registered adjustments active at the period,
\* in registration order.
GetOperatorsAt(registered, period) ==
  SelectSeq(registered, LAMBDA operator : IsActiveAt(operator, period))

\* _.forEach(operators, operator => operator.process(period, context))
RECURSIVE ProcessAll(_, _, _)
ProcessAll(active, period, ctx) ==
  IF active = << >> THEN ctx
  ELSE ProcessAll(Tail(active), period, Process(Head(active), period, ctx))

\* ------------------------------------------------------- repayment policy
\* A slip: the interest-only branch is forgotten.
CalculateRepayment_AlwaysPmt(period, ctx) ==
  Pmt(ctx.presentValue, ctx.effInterestRate, ctx.effTerm - period + 1)

\* __calculateRepayment
CalculateRepayment(period, ctx) ==
  LET presentValue == ctx.presentValue
      effInterestRate == ctx.effInterestRate
      effTermRemaining == ctx.effTerm - period + 1
  IN  IF ctx.repaymentType = interestOnly
        THEN MulRate(presentValue, effInterestRate)
        ELSE Pmt(presentValue, effInterestRate, effTermRemaining)

\* A slip: the `!prevRepayment` test is forgotten.
MustRecalculateRepayment_RateOnly(prevRepayment, prevEffInterestRate, ctx) ==
  prevEffInterestRate # ctx.effInterestRate

\* A slip: the rate comparison is forgotten.
MustRecalculateRepayment_NoRate(prevRepayment, prevEffInterestRate, ctx) ==
  prevRepayment = 0

\* mustRecalculateRepayment of __calculateContext
MustRecalculateRepayment(prevRepayment, prevEffInterestRate, ctx) ==
  LET hasChangedEffInterestRate == prevEffInterestRate # ctx.effInterestRate
  IN  prevRepayment = 0 \/ hasChangedEffInterestRate

\* __calculateContext
CalculateContext(base, registered, period, prevScheduleItem) ==
  LET prevFutureValue == prevScheduleItem.amortization.futureValue
      prevEffInterestRate == prevScheduleItem.context.effInterestRate
      prevRepayment == prevScheduleItem.context.repayment
      fresh == [base EXCEPT !.presentValue = prevFutureValue]
      ctx == ProcessAll(GetOperatorsAt(registered, period), period, fresh)
  IN  [ctx EXCEPT !.repayment =
         IF MustRecalculateRepayment(prevRepayment, prevEffInterestRate, ctx)
           THEN CalculateRepayment(period, ctx)
           ELSE prevRepayment]

\* ------------------------------------------------------------- settlement
\* new Amortization()
Amortization ==
  [futureValue |-> 0, repayment |-> 0, interestPaid |-> 0, principalPaid |-> 0]

\* The repayment asked for before the cap: base + extra repayment + lump sum.
RequestedRepayment(ctx) ==
  ctx.repayment + OrZero(ctx, "effExtraRepayment") + OrZero(ctx, "lumpSum")

\* A slip: no cap.
CapMaxRepayment_NoCap(repayment, presentValue, interestPaid) == repayment

\* "Cap Max Repayment"
CapMaxRepayment(repayment, presentValue, interestPaid) ==
  IF repayment > presentValue THEN presentValue + interestPaid ELSE repayment

\* A slip: the fee is added before the balance math instead of after it.
CalculateAmortization_FeeFirst(ctx) ==
  LET consideredPrincipal == ctx.presentValue - OrZero(ctx, "offset")
      interestPaid == Max(MulRate(consideredPrincipal, ctx.effInterestRate), 0)
      repayment == CapMaxRepayment(RequestedRepayment(ctx), ctx.presentValue,
                                   interestPaid) + OrZero(ctx, "fee")
      principalPaid == repayment - interestPaid
      futureValue == ctx.presentValue - principalPaid
  IN  [futureValue |-> futureValue,
       repayment |-> repayment,
       interestPaid |-> interestPaid,
       principalPaid |-> principalPaid]

\* __calculateAmortization
CalculateAmortization(ctx) ==
  LET consideredPrincipal == ctx.presentValue - OrZero(ctx, "offset")
      interestPaid == Max(MulRate(consideredPrincipal, ctx.effInterestRate), 0)
      repayment == CapMaxRepayment(RequestedRepayment(ctx), ctx.presentValue,
                                   interestPaid)
      principalPaid == repayment - interestPaid
      futureValue == ctx.presentValue - principalPaid
  IN  [futureValue |-> futureValue,
       repayment |-> repayment + OrZero(ctx, "fee"),
       interestPaid |-> interestPaid,
       principalPaid |-> principalPaid]

\* A slip: `<` for `<=`.
IsPaidOff_Strict(amortization) == amortization.futureValue < 0

\* The loop's break test: `amortization.futureValue <= 0`.
IsPaidOff(amortization) == amortization.futureValue <= 0

\* ------------------------------------------------------------------ totals
\* list.reduce(f) without an initial value: the first element alone when the
\* list has one element, otherwise f folded from the first element on.
RECURSIVE Reduce(_, _)
Reduce(acc, list) ==
  IF list = << >> THEN acc
  ELSE Reduce([repayment |-> acc.repayment + Head(list).repayment,
               interestPaid |-> acc.interestPaid + Head(list).interestPaid],
              Tail(list))

\* A slip: the interest total adds up principalPaid.
RECURSIVE Reduce_Principal(_, _)
Reduce_Principal(acc, list) ==
  IF list = << >> THEN acc
  ELSE Reduce_Principal(
         [repayment |-> acc.repayment + Head(list).repayment,
          interestPaid |-> acc.interestPaid + Head(list).principalPaid],
         Tail(list))

CalculateTotals_Principal(list) ==
  LET amortizationList == [i \in 1..Len(list) |-> list[i].amortization]
  IN  Reduce_Principal(Head(amortizationList), Tail(amortizationList))

\* __calculateTotals
CalculateTotals(list) ==
  LET amortizationList == [i \in 1..Len(list) |-> list[i].amortization]
  IN  Reduce(Head(amortizationList), Tail(amortizationList))


\* -------------------------------------------------------------- the engine
VARIABLES
  options,       \* the options both engines were constructed with
  context,       \* the base context both engines were constructed with
  operators,     \* operators[e]: the adjustments registered on engine e
  scheduleList,  \* scheduleList[e]: this.scheduleList, << >> before the first run
  totals,        \* totals[e]: this.totals
  period,        \* period[e]: the loop variable of __calculate
  pc             \* pc[e]: where engine e's calculate() is

vars == <<options, context, operators, scheduleList, totals, period, pc>>

\* The sequences of at most MaxOperators adjustments.
Registrations == UNION {[1..n -> Operators] : n \in 0..MaxOperators}

WithoutFee(registered) ==
  SelectSeq(registered, LAMBDA operator : operator.kind # "fee")

HasFee(registered) == WithoutFee(registered) # registered

\* The state after the two engines are constructed and set up.  A loan
\* without a term is one whose derived term is known (nper of a payment
\* that does not cover the interest is not a number) and at most MaxTerm.
Init ==
  /\ options \in Options
  /\ options.term = 0 =>
       /\ NperDefined(options.presentValue,
                      EffInterestRate(options.interestRate, FrequencyYear,
                                      options.repaymentFrequency),
                      options.repayment)
       /\ Context(options).term <= MaxTerm
  /\ context = Context(options)
  /\ \E registered \in Registrations :
       operators = [e \in Engines |->
                      IF e = 1 THEN registered ELSE WithoutFee(registered)]
  /\ scheduleList = [e \in Engines |-> << >>]
  /\ totals = [e \in Engines |-> Null]
  /\ period = [e \in Engines |-> 0]
  /\ pc = [e \in Engines |-> "idle"]

\* __calculateInitialPeriod: the entry of period 0.
InitialPeriod ==
  [period |-> 0,
   context |-> context,
   amortization |-> [Amortization EXCEPT !.futureValue = context.presentValue]]

\* calculate() is entered; __beforeCalculate: __clearResults, then
\* __calculateInitialPeriod.  The loop variable starts at 1.
BeforeCalculate(e) ==
  /\ pc[e] = "idle"
  /\ e = 2 => pc[1] = "done" /\ HasFee(operators[1])
  /\ totals' = [totals EXCEPT ![e] = Null]
  /\ scheduleList' = [scheduleList EXCEPT ![e] = <<InitialPeriod>>]
  /\ period' = [period EXCEPT ![e] = 1]
  /\ pc' = [pc EXCEPT ![e] = "calculate"]
  /\ UNCHANGED <<options, context, operators>>

\* One iteration of the loop of __calculate: the period's context, its
\* amortization, the push, and the break when the balance is paid off.
CalculatePeriod(e) ==
  /\ pc[e] = "calculate"
  /\ period[e] <= context.effTerm
  /\ LET prevScheduleItem == scheduleList[e][Len(scheduleList[e])]
         ctx == CalculateContext(context, operators[e], period[e],
                                 prevScheduleItem)
         amortization == CalculateAmortization(ctx)
     IN  /\ scheduleList' = [scheduleList EXCEPT ![e] =
               Append(@, [period |-> period[e], context |-> ctx,
                          amortization |-> amortization])]
         /\ IF IsPaidOff(amortization)
              THEN /\ pc' = [pc EXCEPT ![e] = "afterCalculate"]
                   /\ UNCHANGED period
              ELSE /\ period' = [period EXCEPT ![e] = @ + 1]
                   /\ UNCHANGED pc
  /\ UNCHANGED <<options, context, operators, totals>>

\* The loop of __calculate ends because the period passed effTerm.
TermExhausted(e) ==
  /\ pc[e] = "calculate"
  /\ period[e] > context.effTerm
  /\ pc' = [pc EXCEPT ![e] = "afterCalculate"]
  /\ UNCHANGED <<options, context, operators, scheduleList, totals, period>>

\* __afterCalculate: __calculateTotals; calculate() returns.
AfterCalculate(e) ==
  /\ pc[e] = "afterCalculate"
  /\ totals' = [totals EXCEPT ![e] = CalculateTotals(scheduleList[e])]
  /\ pc' = [pc EXCEPT ![e] = "done"]
  /\ UNCHANGED <<options, context, operators, scheduleList, period>>

Next ==
  \E e \in Engines :
    \/ BeforeCalculate(e)
    \/ CalculatePeriod(e)
    \/ TermExhausted(e)
    \/ AfterCalculate(e)

Spec == Init /\ [][Next]_vars


\* ------------------------------------------------------------ the schedule
\* The positions of the entries of period >= 1 in engine e's schedule: the
\* entry of period p is at position p + 1.
Running(e) == 2..Len(scheduleList[e])

Entry(e, i) == scheduleList[e][i]

\* The base repayment a period's own values give when it is computed afresh.
FreshRepayment(entry) ==
  IF entry.context.repaymentType = interestOnly
    THEN MulRate(entry.context.presentValue, entry.context.effInterestRate)
    ELSE Pmt(entry.context.presentValue, entry.context.effInterestRate,
             entry.context.effTerm - entry.period + 1)

Returned(e) == pc[e] = "done"

LoopEnded(e) == pc[e] \in {"afterCalculate", "done"}

\* ---------------------------------------------------------------- claim C1
\* C1 as stated: in the first period, and in every period whose effective
\* rate differs from the previous entry's, context.repayment is computed
\* afresh from the period's own present value; in every other period it is
\* the previous entry's context.repayment.
C1_RecomputeOnFirstPeriod ==
  \A e \in Engines : \A i \in Running(e) :
    LET cur == Entry(e, i)
        prev == Entry(e, i - 1)
    IN  IF cur.period = 1
           \/ cur.context.effInterestRate # prev.context.effInterestRate
          THEN cur.context.repayment = FreshRepayment(cur)
          ELSE cur.context.repayment = prev.context.repayment

\* C1 amended: context.repayment is computed afresh exactly when the previous
\* entry's context.repayment is 0 or the effective rate differs from the
\* previous entry's; otherwise it is the previous entry's context.repayment.
\* In period 1 the previous entry is the initial one, whose context.repayment
\* is the user's fixed repayment: a non-zero fixed repayment is carried into
\* period 1, not recomputed.
C1_RecomputeOnZeroOrRateChange ==
  \A e \in Engines : \A i \in Running(e) :
    LET cur == Entry(e, i)
        prev == Entry(e, i - 1)
    IN  IF prev.context.repayment = 0
           \/ cur.context.effInterestRate # prev.context.effInterestRate
          THEN cur.context.repayment = FreshRepayment(cur)
          ELSE cur.context.repayment = prev.context.repayment

\* A run with a fixed repayment that period 1 carried, that a rate change
\* then replaced by a fresh repayment, different from the carried one.
C1_Witness ==
  \E i \in Running(1) :
    /\ i >= 3
    /\ Entry(1, 2).context.repayment = options.repayment
    /\ options.repayment # 0
    /\ options.repayment # FreshRepayment(Entry(1, 2))
    /\ Entry(1, i).context.effInterestRate
         # Entry(1, i - 1).context.effInterestRate
    /\ Entry(1, i).context.repayment = FreshRepayment(Entry(1, i))
    /\ Entry(1, i).context.repayment # Entry(1, i - 1).context.repayment

\* ---------------------------------------------------------------- claim C2
\* C2 as stated: futureValue never increases from one entry to the next.
C2_FutureValueNonIncreasing ==
  \A e \in Engines : \A i \in Running(e) :
    Entry(e, i).amortization.futureValue
      <= Entry(e, i - 1).amortization.futureValue

\* C2 amended: futureValue does not increase in a period whose requested
\* repayment (context.repayment + extra repayment + lump sum) is at least the
\* period's interestPaid, and every period of a run without a user-supplied
\* fixed repayment is such a period.
C2_NonIncreasingWhenInterestCovered ==
  \A e \in Engines : \A i \in Running(e) :
    LET cur == Entry(e, i)
        covered == RequestedRepayment(cur.context) >= cur.amortization.interestPaid
    IN  /\ covered => cur.amortization.futureValue
                        <= Entry(e, i - 1).amortization.futureValue
        /\ options.repayment = 0 => covered

\* A run without a fixed repayment whose rate rose in a later period and
\* whose balance went down in that period.
C2_Witness ==
  \E i \in Running(1) :
    /\ i >= 3
    /\ options.repayment = 0
    /\ Entry(1, i).context.effInterestRate
         > Entry(1, i - 1).context.effInterestRate
    /\ Entry(1, i).amortization.interestPaid > 0
    /\ Entry(1, i).amortization.futureValue
         < Entry(1, i - 1).amortization.futureValue

\* ---------------------------------------------------------------- claim C3
\* C3: the entries are those of the periods 0, 1, 2, ... in order; none has
\* a period beyond effTerm; no entry follows an entry of period >= 1 whose
\* futureValue is <= 0; and once the loop has ended its last entry either
\* has futureValue <= 0 or is the entry of period effTerm (the initial entry
\* when effTerm is 0).
C3_StopCondition ==
  \A e \in Engines :
    LET n == Len(scheduleList[e])
    IN  /\ \A i \in 1..n : Entry(e, i).period = i - 1
        /\ \A i \in Running(e) : Entry(e, i).period <= context.effTerm
        /\ \A i \in Running(e) :
             i < n => Entry(e, i).amortization.futureValue > 0
        /\ LoopEnded(e) =>
             \/ n >= 2 /\ Entry(e, n).amortization.futureValue <= 0
             \/ Entry(e, n).period = context.effTerm

\* A run that ended early: its last entry is paid off before period effTerm,
\* after at least one entry that was not.
C3_Witness ==
  LET n == Len(scheduleList[1])
  IN  /\ Returned(1)
      /\ n >= 3
      /\ Entry(1, n).amortization.futureValue <= 0
      /\ Entry(1, n).period < context.effTerm


\* ---------------------------------------------------------------- claim C4
\* C4: a loan with presentValue 0 and a supplied term > 0 returns a schedule
\* that holds the initial entry only, and totals of 0.
C4_ZeroPrincipalInitialEntryOnly ==
  \A e \in Engines :
    Returned(e) /\ options.presentValue = 0 /\ options.term > 0 =>
      /\ Len(scheduleList[e]) = 1
      /\ totals[e].repayment = 0
      /\ totals[e].interestPaid = 0

\* ---------------------------------------------------------------- claim C5
\* The fee in force at a period on engine 1: the amount of the last
\* registered fee adjustment whose range holds the period, 0 without one.
FeeAt(p) ==
  LET fees == SelectSeq(operators[1],
                LAMBDA operator : operator.kind = "fee" /\ IsActiveAt(operator, p))
  IN  IF fees = << >> THEN 0 ELSE fees[Len(fees)].amount

\* C5: engine 1 (with the fee adjustments) and engine 2 (the same loan and
\* adjustments without them) return schedules of the same length with, at
\* every period, the same interestPaid, principalPaid and futureValue; the
\* repayment of engine 1 is that of engine 2 plus the fee in force at the
\* period, so equal where no fee is in force.
C5_FeeIndependence ==
  Returned(1) /\ Returned(2) =>
    /\ Len(scheduleList[1]) = Len(scheduleList[2])
    /\ \A i \in Running(1) :
         LET withFee == Entry(1, i).amortization
             without == Entry(2, i).amortization
         IN  /\ withFee.interestPaid = without.interestPaid
             /\ withFee.principalPaid = without.principalPaid
             /\ withFee.futureValue = without.futureValue
             /\ withFee.repayment = without.repayment + FeeAt(i - 1)

\* Both runs returned; a fee was in force at period 1 and raised that
\* period's repayment, and none at period 2, whose repayments are equal.
C5_Witness ==
  /\ Returned(1) /\ Returned(2)
  /\ Len(scheduleList[1]) >= 3
  /\ FeeAt(1) > 0
  /\ FeeAt(2) = 0
  /\ Entry(1, 2).amortization.repayment > Entry(2, 2).amortization.repayment
  /\ Entry(1, 3).amortization.repayment = Entry(2, 3).amortization.repayment
  /\ Entry(1, 3).amortization.repayment > 0

\* ---------------------------------------------------------------- claim C6
RECURSIVE SumFrom(_, _, _)
SumFrom(e, i, field) ==
  IF i > Len(scheduleList[e]) THEN 0
  ELSE Entry(e, i).amortization[field] + SumFrom(e, i + 1, field)

\* C6: once calculate() returned, totals.repayment and totals.interestPaid
\* are the sums of repayment and interestPaid over the entries of period
\* >= 1; the initial entry has repayment 0 and interestPaid 0; without an
\* entry of period >= 1 both totals are 0.
C6_TotalsAggregation ==
  \A e \in Engines :
    Returned(e) =>
      /\ totals[e].repayment = SumFrom(e, 2, "repayment")
      /\ totals[e].interestPaid = SumFrom(e, 2, "interestPaid")
      /\ Entry(e, 1).amortization.repayment = 0
      /\ Entry(e, 1).amortization.interestPaid = 0
      /\ Len(scheduleList[e]) = 1 =>
           totals[e].repayment = 0 /\ totals[e].interestPaid = 0

\* A returned run of two periods or more that paid interest and principal.
C6_Witness ==
  /\ Returned(1)
  /\ Len(scheduleList[1]) >= 3
  /\ totals[1].interestPaid > 0
  /\ totals[1].repayment > totals[1].interestPaid

\* A returned run without an entry of period >= 1: the totals are the
\* initial entry's amortization, whose repayment and interestPaid are 0.
C6_WitnessEmptyRange ==
  /\ Returned(1)
  /\ Len(scheduleList[1]) = 1
  /\ totals[1] = Entry(1, 1).amortization
  /\ totals[1].repayment = 0

\* ---------------------------------------------------------------- claim C7
\* C7, for a principal-and-interest loan with a supplied term: calculate()
\* returns normally only when the balance reached <= 0; a run whose loop
\* ends with a positive balance is an error.  The engine has no error
\* outcome: pc = "done" is the normal return.
C7_ReturnsOnlyWhenPaidOff ==
  \A e \in Engines :
    /\ Returned(e)
    /\ options.term > 0
    /\ options.repaymentType = principalAndInterest
    => Entry(e, Len(scheduleList[e])).amortization.futureValue <= 0

\* ---------------------------------------------------------------- claim C8
\* The repayment of an entry before the fee was added.
RepaymentBeforeFee(entry) ==
  entry.amortization.repayment - OrZero(entry.context, "fee")

ActiveUpTo(e, kinds, p) ==
  \E q \in 1..p : \E j \in 1..Len(operators[e]) :
    operators[e][j].kind \in kinds /\ IsActiveAt(operators[e][j], q)

\* C9 as stated, for a loan without a fixed repayment and a rate of at most
\* 100% a period: on an interest-only loan, every period without an extra
\* repayment or lump sum in force has principalPaid 0 and a futureValue
\* equal to its presentValue, whatever other adjustments are in force.
C9_InterestOnlyKeepsBalance ==
  \A e \in Engines : \A i \in Running(e) :
    LET entry == Entry(e, i)
    IN  /\ options.repaymentType = interestOnly
        /\ options.repayment = 0
        /\ entry.context.effInterestRate <= RateDen
        /\ OrZero(entry.context, "effExtraRepayment") = 0
        /\ OrZero(entry.context, "lumpSum") = 0
        => /\ entry.amortization.principalPaid = 0
           /\ entry.amortization.futureValue = entry.context.presentValue

\* C9 amended: on an interest-only loan without a user-supplied fixed
\* repayment, every period up to which no extra repayment, lump sum or
\* offset was in force, and whose rate is at most 100% a period, has
\* principalPaid 0 and futureValue equal to the principal; fee and
\* interest-rate adjustments do not disturb this.  A loan with a positive
\* principal, no extra repayment, lump sum or offset at all and no rate
\* above 100% then runs through all effTerm periods.
C9_InterestOnlyKeepsPrincipal ==
  \A e \in Engines :
    /\ options.repaymentType = interestOnly
    /\ options.repayment = 0
    => /\ \A i \in Running(e) :
            LET entry == Entry(e, i)
            IN  /\ ~ActiveUpTo(e, {"extraRepayment", "lumpSum", "offset"}, i - 1)
                /\ entry.context.effInterestRate <= RateDen
                => /\ entry.amortization.principalPaid = 0
                   /\ entry.amortization.futureValue = options.presentValue
       /\ /\ LoopEnded(e)
          /\ options.presentValue > 0
          /\ ~ActiveUpTo(e, {"extraRepayment", "lumpSum", "offset"},
                         context.effTerm)
          /\ \A i \in Running(e) :
               Entry(e, i).context.effInterestRate <= RateDen
          => Len(scheduleList[e]) = context.effTerm + 1

\* An interest-only run with an interest-rate adjustment in force from
\* period 2 that went through all its periods with the balance unchanged,
\* paying more interest after the change.
C9_Witness ==
  LET n == Len(scheduleList[1])
  IN  /\ Returned(1)
      /\ options.repaymentType = interestOnly
      /\ options.repayment = 0
      /\ options.presentValue > 0
      /\ n = context.effTerm + 1
      /\ n >= 3
      /\ ActiveUpTo(1, {"interestRate"}, n - 1)
      /\ Entry(1, n).amortization.interestPaid
           > Entry(1, 2).amortization.interestPaid
      /\ Entry(1, 2).amortization.interestPaid > 0
      /\ Entry(1, n).amortization.futureValue = options.presentValue

\* --------------------------------------------------------------- claim C10
\* C10, for a loan without adjustments: in every settled period the
\* repayment before the fee is at most the requested repayment.
C10_CapOnlyLowers ==
  \A e \in Engines : \A i \in Running(e) :
    operators[e] = << >> =>
      RepaymentBeforeFee(Entry(e, i)) <= RequestedRepayment(Entry(e, i).context)

=============================================================================
